---------------------------- MODULE Spec2Model ----------------------------
(***************************************************************************)
(* Backend selection, rebinding and scoped override of the 3-D rendering   *)
(* facade in mne/viz/backends/renderer.py.                                 *)
(*                                                                         *)
(* The module's globals (MNE_3D_BACKEND, MNE_3D_BACKEND_TEST_DATA, _mod    *)
(* and the four names bound from _fromlist) are the process-wide state.    *)
(* sys_modules is the interpreter's cache of imported backend modules.     *)
(* Every open context manager (use_3d_backend, _use_test_3d_backend) is a  *)
(* suspended generator frame on its thread's stack.  last and last_set     *)
(* record what the caller of the most recent call observed.                *)
(***************************************************************************)
EXTENDS Naturals, Sequences, FiniteSets, TLC

VARIABLES
    MNE_3D_BACKEND,            \* module global, line 22 / 99
    MNE_3D_BACKEND_TEST_DATA,  \* module global, line 23 / 142
    _mod,                      \* module global, line 32
    bound,                     \* the _fromlist names bound by lines 35-36
    sys_modules,               \* backend modules already imported
    config,                    \* the backend name the configuration yields
    stack,                     \* per thread: suspended generator frames
    last,                      \* the most recent call as its caller saw it
    last_set,                  \* the most recent execution of set_3d_backend
    scopes                     \* what happened since no scope was open

vars == <<MNE_3D_BACKEND, MNE_3D_BACKEND_TEST_DATA, _mod, bound,
          sys_modules, config, stack, last, last_set, scopes>>

---------------------------------------------------------------------------
(* Bounds *)

\* deepest nesting of open scopes on one thread
MaxDepth == 2

\* deepest nesting of open scopes on each thread of the two-thread program
MaxOverlapDepth == 1

---------------------------------------------------------------------------
(* Values *)

\* Python's None
None == "None"
\* Python's True, as stored in MNE_3D_BACKEND_TEST_DATA
PyTrue == "True"
\* a module-level name that has not been assigned yet (reading it is NameError)
Undefined == "<undefined>"

_fromlist == {"_Renderer", "_Projection", "_close_all", "_check_figure"}

_name_map == [mayavi |-> "_pysurfer_mayavi", pyvista |-> "_pyvista"]

\* line 14: the supported names; line 33 looks every one of them up in _name_map
VALID_3D_BACKENDS == DOMAIN _name_map

\* names no backend has; what a caller may pass besides the valid ones
InvalidNames == {"vtk", ""}

BackendNames == VALID_3D_BACKENDS \cup InvalidNames

\* an exception is identified by its type and by the statement that raised it
Exc(type, raised_by) == [type |-> type, raised_by |-> raised_by]

NoExc == Exc("none", "none")

\* what a scope body may raise
BodyExcs == {Exc("RuntimeError", "body"), Exc("ImportError", "body")}

\* the one thread of the single-threaded programs
MainThreads == {"main"}

\* every thread a program of this model may have
AllThreads == {"main", "worker"}

---------------------------------------------------------------------------
(* The module's globals as one value *)

Globals(name, test, mod, bnd) ==
    [MNE_3D_BACKEND |-> name, MNE_3D_BACKEND_TEST_DATA |-> test,
     _mod |-> mod, bound |-> bnd]

\* the globals of the current state
G == Globals(MNE_3D_BACKEND, MNE_3D_BACKEND_TEST_DATA, _mod, bound)

\* the module namespace before its first execution
FreshNamespace ==
    Globals(Undefined, Undefined, Undefined, [k \in _fromlist |-> Undefined])

\* _check_option(parameter, value, allowed_values): TRUE when it returns,
\* FALSE when it raises ValueError
_check_option(value, allowed_values) == value \in allowed_values

\* the names the configuration may yield
ConfiguredNames == VALID_3D_BACKENDS

\* _get_backend_based_on_env_and_defaults(): the configured backend name
_get_backend_based_on_env_and_defaults(cfg) == cfg

\* importlib.__import__(_name_map[name], ...): a cached module is returned,
\* an uncached one is loaded when the environment lets it (loads)
ImportSucceeds(module, sm, loads) == module \in sm \/ loads

---------------------------------------------------------------------------
(* Module execution: first import and every importlib.reload *)

\* what a call hands back: the globals and the module cache it leaves, the
\* exception it raises (NoExc when it returns), how many imports it tried
\* and how many times it ran the default-backend resolver
Outcome(g, sm, exc, imports) ==
    [g |-> g, sys_modules |-> sm, exc |-> exc, imports |-> imports,
     resolutions |-> 0]

\* a module top level that resolves the default on every execution
NameErrorAlways(g) == TRUE

\* lines 18-21: reading the two globals raises NameError
NameErrorAtGuard(g) ==
    g.MNE_3D_BACKEND = Undefined \/ g.MNE_3D_BACKEND_TEST_DATA = Undefined

\* the guard with line 23 moved out of the except clause: the test flag is
\* cleared by every execution of the module
InitGuardResetsFlag(g, cfg) ==
    IF NameErrorAtGuard(g)
    THEN [g EXCEPT !.MNE_3D_BACKEND = _get_backend_based_on_env_and_defaults(cfg),
                   !.MNE_3D_BACKEND_TEST_DATA = None]
    ELSE [g EXCEPT !.MNE_3D_BACKEND_TEST_DATA = None]

\* lines 18-23: the one-time initialization guard
InitGuard(g, cfg) ==
    IF NameErrorAtGuard(g)
    THEN [g EXCEPT !.MNE_3D_BACKEND = _get_backend_based_on_env_and_defaults(cfg),
                   !.MNE_3D_BACKEND_TEST_DATA = None]
    ELSE g

\* BindBackend binding only a namespace that has no _mod yet: the
\* implementation bound first is remembered across every later switch
BindBackendOnce(g, sm, loads) ==
    IF g.MNE_3D_BACKEND \in VALID_3D_BACKENDS
    THEN LET module == _name_map[g.MNE_3D_BACKEND] IN
         IF ImportSucceeds(module, sm, loads)
         THEN Outcome(IF g._mod = Undefined
                      THEN [g EXCEPT !._mod = module,
                                     !.bound = [k \in _fromlist |-> module]]
                      ELSE g,
                      sm \cup {module}, NoExc, 1)
         ELSE Outcome(g, sm, Exc("ImportError", "import"), 1)
    ELSE Outcome(g, sm, NoExc, 0)

\* lines 29-36: import the implementation of g.MNE_3D_BACKEND and bind it
BindBackend(g, sm, loads) ==
    IF g.MNE_3D_BACKEND \in VALID_3D_BACKENDS
    THEN LET module == _name_map[g.MNE_3D_BACKEND] IN
         IF ImportSucceeds(module, sm, loads)
         THEN Outcome([g EXCEPT !._mod = module,
                                !.bound = [k \in _fromlist |-> module]],
                      sm \cup {module}, NoExc, 1)
         ELSE Outcome(g, sm, Exc("ImportError", "import"), 1)
    ELSE Outcome(g, sm, NoExc, 0)

\* lines 18-36: the module's top-level code, run on the namespace g
ModuleExec(g, sm, cfg, loads) ==
    [BindBackend(InitGuard(g, cfg), sm, loads)
        EXCEPT !.resolutions = IF NameErrorAtGuard(g) THEN 1 ELSE 0]

---------------------------------------------------------------------------
(* The operations *)

\* set_3d_backend without its global statement: line 99 assigns a local
set_3d_backend_local(g, sm, cfg, backend_name, loads) ==
    IF ~_check_option(backend_name, VALID_3D_BACKENDS)
    THEN Outcome(g, sm, Exc("ValueError", "_check_option"), 0)
    ELSE ModuleExec(g, sm, cfg, loads)

\* set_3d_backend validating after the assignment and the reload
set_3d_backend_latecheck(g, sm, cfg, backend_name, loads) ==
    LET r == ModuleExec([g EXCEPT !.MNE_3D_BACKEND = backend_name], sm, cfg, loads)
    IN  IF r.exc # NoExc THEN r
        ELSE IF ~_check_option(backend_name, VALID_3D_BACKENDS)
        THEN Outcome(r.g, r.sys_modules, Exc("ValueError", "_check_option"),
                     r.imports)
        ELSE r

\* lines 97-100
set_3d_backend(g, sm, cfg, backend_name, loads) ==
    IF ~_check_option(backend_name, VALID_3D_BACKENDS)
    THEN Outcome(g, sm, Exc("ValueError", "_check_option"), 0)
    ELSE ModuleExec([g EXCEPT !.MNE_3D_BACKEND = backend_name], sm, cfg, loads)

\* lines 103-111
get_3d_backend(g) == g.MNE_3D_BACKEND

\* a suspended scope: the generator's function and its two locals
Frame(fn, backend_name, old_backend) ==
    [fn |-> fn, backend_name |-> backend_name, old_backend |-> old_backend]

\* use_3d_backend with lines 123 and 124 exchanged: old_backend is read
\* after the switch
use_3d_backend_enter_lateread(g, sm, cfg, backend_name, loads) ==
    LET r == set_3d_backend(g, sm, cfg, backend_name, loads)
        old_backend == get_3d_backend(r.g)
    IN  [g |-> r.g, sys_modules |-> r.sys_modules, exc |-> r.exc,
         imports |-> r.imports, resolutions |-> r.resolutions,
         entered |-> (r.exc = NoExc),
         frame |-> Frame("use_3d_backend", backend_name, old_backend)]

\* lines 123-126: use_3d_backend up to its yield
use_3d_backend_enter(g, sm, cfg, backend_name, loads) ==
    LET old_backend == get_3d_backend(g)
        r == set_3d_backend(g, sm, cfg, backend_name, loads)
    IN  [g |-> r.g, sys_modules |-> r.sys_modules, exc |-> r.exc,
         imports |-> r.imports, resolutions |-> r.resolutions,
         entered |-> (r.exc = NoExc),
         frame |-> Frame("use_3d_backend", backend_name, old_backend)]

\* a finally clause that ends the propagation of the body's exception
TryFinallySwallowsBody(body_exc, finally_exc) == finally_exc

\* a finally clause whose own failure is caught and dropped
TryFinallySwallowsCleanup(body_exc, finally_exc) == body_exc

\* lines 125-128: what leaves a try/finally whose body ended with body_exc
\* and whose finally clause ended with finally_exc
TryFinally(body_exc, finally_exc) ==
    IF finally_exc # NoExc THEN finally_exc ELSE body_exc

\* use_3d_backend without try/finally: the restoring call follows the yield
\* and runs only when the body returns
use_3d_backend_exit_nofinally(g, sm, cfg, frame, body_exc, loads) ==
    IF body_exc # NoExc
    THEN [g |-> g, sys_modules |-> sm, exc |-> body_exc,
          restore_exc |-> NoExc, imports |-> 0, resolutions |-> 0]
    ELSE LET r == set_3d_backend(g, sm, cfg, frame.old_backend, loads)
         IN  [g |-> r.g, sys_modules |-> r.sys_modules, exc |-> r.exc,
              restore_exc |-> r.exc, imports |-> r.imports,
              resolutions |-> r.resolutions]

\* lines 127-128: use_3d_backend resumed at its yield, the body having
\* ended with body_exc (NoExc: normally)
use_3d_backend_exit(g, sm, cfg, frame, body_exc, loads) ==
    LET r == set_3d_backend(g, sm, cfg, frame.old_backend, loads)
    IN  [g |-> r.g, sys_modules |-> r.sys_modules,
         exc |-> TryFinally(body_exc, r.exc), restore_exc |-> r.exc,
         imports |-> r.imports, resolutions |-> r.resolutions]

\* _use_test_3d_backend with line 142 ahead of the with statement of line 140
_use_test_3d_backend_enter_flagfirst(g, sm, cfg, backend_name, loads) ==
    LET r == use_3d_backend_enter(
                 [g EXCEPT !.MNE_3D_BACKEND_TEST_DATA = PyTrue],
                 sm, cfg, backend_name, loads)
    IN  [r EXCEPT !.frame.fn = "_use_test_3d_backend"]

\* lines 140-143: _use_test_3d_backend up to its yield
_use_test_3d_backend_enter(g, sm, cfg, backend_name, loads) ==
    LET r == use_3d_backend_enter(g, sm, cfg, backend_name, loads)
    IN  IF r.entered
        THEN [r EXCEPT !.g.MNE_3D_BACKEND_TEST_DATA = PyTrue,
                       !.frame.fn = "_use_test_3d_backend"]
        ELSE r

\* lines 140-143: _use_test_3d_backend resumed at its yield; leaving the
\* with block of line 140 is all that is left to do
_use_test_3d_backend_exit(g, sm, cfg, frame, body_exc, loads) ==
    use_3d_backend_exit(g, sm, cfg, frame, body_exc, loads)

\* lines 163, 180, 200: the implementation a facade call reaches
Delegate(g) == g._mod

\* an implementation's answer to a call on a figure: it rejects a figure that
\* another implementation created
BackendCall(module, figure) ==
    IF figure = module THEN NoExc ELSE Exc("DelegationError", "backend")

---------------------------------------------------------------------------
(* What callers observe *)

FacadeOps == {"create_3d_figure", "set_3d_view", "set_3d_title"}

\* a set_3d_backend that closes every figure of the outgoing backend
\* before it switches
BackendCallsClosing(op) ==
    CASE op = "create_3d_figure" -> {"_Renderer", "scene"}
      [] op = "set_3d_view" -> {"_set_3d_view"}
      [] op = "set_3d_title" -> {"_set_3d_title"}
      [] op = "set_3d_backend" -> {"_close_all"}
      [] OTHER -> {}

\* the members of the bound implementation that a call invokes: lines 163,
\* 180 and 200-201; no other line of the module calls into _mod or into the
\* names bound from _fromlist
BackendCalls(op) ==
    CASE op = "create_3d_figure" -> {"_Renderer", "scene"}
      [] op = "set_3d_view" -> {"_set_3d_view"}
      [] op = "set_3d_title" -> {"_set_3d_title"}
      [] OTHER -> {}

EnterOps == {"use_3d_backend.enter", "_use_test_3d_backend.enter"}

ExitOps == {"use_3d_backend.exit", "_use_test_3d_backend.exit"}

\* the calls that execute set_3d_backend
SetOps == {"set_3d_backend"} \cup EnterOps \cup ExitOps

\* the record of a call: op(arg) by thread, entered with globals pre and the
\* thread's stack at depth; the other fields are filled in by the operation
CallRecord(op, thread, arg, pre, depth) ==
    [op |-> op, thread |-> thread, arg |-> arg, pre |-> pre, depth |-> depth,
     exc |-> NoExc, imports |-> 0, entered |-> FALSE,
     body_exc |-> NoExc, restore_exc |-> NoExc, old_backend |-> None,
     ret |-> None, hit |-> None, resolutions |-> 0,
     called |-> BackendCalls(op)]

\* the record of an execution of set_3d_backend(arg)
SetRecord(arg, exc) == [arg |-> arg, exc |-> exc]

\* the globals and the module cache become those of outcome r
Becomes(r) ==
    /\ MNE_3D_BACKEND' = r.g.MNE_3D_BACKEND
    /\ MNE_3D_BACKEND_TEST_DATA' = r.g.MNE_3D_BACKEND_TEST_DATA
    /\ _mod' = r.g._mod
    /\ bound' = r.g.bound
    /\ sys_modules' = r.sys_modules

globals == <<MNE_3D_BACKEND, MNE_3D_BACKEND_TEST_DATA, _mod, bound, sys_modules>>

---------------------------------------------------------------------------
(* Initial state: the module has been imported *)

Init ==
    /\ config \in ConfiguredNames
    /\ LET r == ModuleExec(FreshNamespace, {}, config, TRUE) IN
        /\ MNE_3D_BACKEND = r.g.MNE_3D_BACKEND
        /\ MNE_3D_BACKEND_TEST_DATA = r.g.MNE_3D_BACKEND_TEST_DATA
        /\ _mod = r.g._mod
        /\ bound = r.g.bound
        /\ sys_modules = r.sys_modules
        /\ last = [CallRecord("import", "main", None, FreshNamespace, 0)
                      EXCEPT !.imports = r.imports,
                             !.resolutions = r.resolutions]
        /\ last_set = SetRecord(None, NoExc)
    /\ stack = [t \in AllThreads |-> <<>>]
    /\ scopes = [origin |-> MNE_3D_BACKEND, overlap |-> FALSE,
                 touched |-> [t \in AllThreads |-> FALSE],
                 foreign_seen |-> FALSE]

---------------------------------------------------------------------------
(* Actions: one per call a thread can make *)

\* set_3d_backend(backend_name), at top level or inside a scope body
SetBackend(t) ==
    \E backend_name \in BackendNames, loads \in BOOLEAN :
        LET r == set_3d_backend(G, sys_modules, config, backend_name, loads) IN
        /\ Becomes(r)
        /\ last' = [CallRecord("set_3d_backend", t, backend_name, G, Len(stack[t]))
                       EXCEPT !.exc = r.exc, !.imports = r.imports,
                              !.resolutions = r.resolutions]
        /\ last_set' = SetRecord(backend_name, r.exc)
        /\ UNCHANGED <<config, stack>>

\* a get_3d_backend that resolves the configured default again before it
\* answers
GetBackendResolving(t) ==
    /\ MNE_3D_BACKEND' = _get_backend_based_on_env_and_defaults(config)
    /\ last' = [CallRecord("get_3d_backend", t, None, G, Len(stack[t]))
                   EXCEPT !.ret = _get_backend_based_on_env_and_defaults(config)]
    /\ UNCHANGED <<MNE_3D_BACKEND_TEST_DATA, _mod, bound, sys_modules,
                   config, stack, last_set>>

\* get_3d_backend()
GetBackend(t) ==
    /\ last' = [CallRecord("get_3d_backend", t, None, G, Len(stack[t]))
                   EXCEPT !.ret = get_3d_backend(G)]
    /\ UNCHANGED <<globals, config, stack, last_set>>

\* with use_3d_backend(backend_name): entry
UseEnter(t) ==
    \E backend_name \in BackendNames, loads \in BOOLEAN :
        LET r == use_3d_backend_enter(G, sys_modules, config, backend_name, loads) IN
        /\ Len(stack[t]) < MaxDepth
        /\ Becomes(r)
        /\ stack' = [stack EXCEPT ![t] = IF r.entered THEN Append(@, r.frame) ELSE @]
        /\ last' = [CallRecord("use_3d_backend.enter", t, backend_name, G, Len(stack[t]))
                       EXCEPT !.exc = r.exc, !.imports = r.imports,
                              !.resolutions = r.resolutions,
                              !.entered = r.entered,
                              !.old_backend = r.frame.old_backend]
        /\ last_set' = SetRecord(backend_name, r.exc)
        /\ UNCHANGED config

\* with use_3d_backend(...): the body of the innermost scope ends, normally
\* or by raising
UseExit(t) ==
    \E body_exc \in {NoExc} \cup BodyExcs, loads \in BOOLEAN :
        /\ stack[t] # <<>>
        /\ LET frame == stack[t][Len(stack[t])]
               r == use_3d_backend_exit(G, sys_modules, config, frame, body_exc, loads)
           IN
            /\ frame.fn = "use_3d_backend"
            /\ Becomes(r)
            /\ stack' = [stack EXCEPT ![t] = SubSeq(@, 1, Len(@) - 1)]
            /\ last' = [CallRecord("use_3d_backend.exit", t, frame.backend_name, G,
                                   Len(stack[t]))
                           EXCEPT !.exc = r.exc, !.imports = r.imports,
                              !.resolutions = r.resolutions,
                                  !.body_exc = body_exc,
                                  !.restore_exc = r.restore_exc,
                                  !.old_backend = frame.old_backend]
            /\ last_set' = SetRecord(frame.old_backend, r.restore_exc)
            /\ UNCHANGED config

\* with _use_test_3d_backend(backend_name): entry
TestEnter(t) ==
    \E backend_name \in BackendNames, loads \in BOOLEAN :
        LET r == _use_test_3d_backend_enter(G, sys_modules, config, backend_name, loads) IN
        /\ Len(stack[t]) < MaxDepth
        /\ Becomes(r)
        /\ stack' = [stack EXCEPT ![t] = IF r.entered THEN Append(@, r.frame) ELSE @]
        /\ last' = [CallRecord("_use_test_3d_backend.enter", t, backend_name, G,
                               Len(stack[t]))
                       EXCEPT !.exc = r.exc, !.imports = r.imports,
                              !.resolutions = r.resolutions,
                              !.entered = r.entered,
                              !.old_backend = r.frame.old_backend]
        /\ last_set' = SetRecord(backend_name, r.exc)
        /\ UNCHANGED config

\* with _use_test_3d_backend(...): the body ends, normally or by raising
TestExit(t) ==
    \E body_exc \in {NoExc} \cup BodyExcs, loads \in BOOLEAN :
        /\ stack[t] # <<>>
        /\ LET frame == stack[t][Len(stack[t])]
               r == _use_test_3d_backend_exit(G, sys_modules, config, frame, body_exc, loads)
           IN
            /\ frame.fn = "_use_test_3d_backend"
            /\ Becomes(r)
            /\ stack' = [stack EXCEPT ![t] = SubSeq(@, 1, Len(@) - 1)]
            /\ last' = [CallRecord("_use_test_3d_backend.exit", t, frame.backend_name, G,
                                   Len(stack[t]))
                           EXCEPT !.exc = r.exc, !.imports = r.imports,
                              !.resolutions = r.resolutions,
                                  !.body_exc = body_exc,
                                  !.restore_exc = r.restore_exc,
                                  !.old_backend = frame.old_backend]
            /\ last_set' = SetRecord(frame.old_backend, r.restore_exc)
            /\ UNCHANGED config

\* create_3d_figure(size): lines 200-201
CreateFigure(t) ==
    /\ last' = [CallRecord("create_3d_figure", t, None, G, Len(stack[t]))
                   EXCEPT !.hit = Delegate(G), !.ret = Delegate(G)]
    /\ UNCHANGED <<globals, config, stack, last_set>>

\* set_3d_view(figure, ...): lines 163-165
SetView(t) ==
    \E figure \in sys_modules :
        /\ last' = [CallRecord("set_3d_view", t, figure, G, Len(stack[t]))
                       EXCEPT !.hit = Delegate(G),
                              !.exc = BackendCall(Delegate(G), figure)]
        /\ UNCHANGED <<globals, config, stack, last_set>>

\* set_3d_title(figure, title): line 180
SetTitle(t) ==
    \E figure \in sys_modules :
        /\ last' = [CallRecord("set_3d_title", t, figure, G, Len(stack[t]))
                       EXCEPT !.hit = Delegate(G),
                              !.exc = BackendCall(Delegate(G), figure)]
        /\ UNCHANGED <<globals, config, stack, last_set>>

\* one call by thread t
Step(t) ==
    \/ SetBackend(t)
    \/ GetBackend(t)
    \/ UseEnter(t)
    \/ UseExit(t)
    \/ TestEnter(t)
    \/ TestExit(t)
    \/ CreateFigure(t)
    \/ SetView(t)
    \/ SetTitle(t)

\* no thread is inside a scope
Quiescent == \A u \in AllThreads : stack[u] = <<>>

\* two threads are inside scopes at once
Overlapping ==
    \E u, v \in AllThreads : u # v /\ stack[u] # <<>> /\ stack[v] # <<>>

\* thread t, inside one scope and not having executed set_3d_backend since
\* it entered, has just read a backend other than the one it asked for
SeesForeignBackend(t) ==
    /\ last'.op = "get_3d_backend"
    /\ Len(stack[t]) = 1
    /\ ~scopes.touched[t]
    /\ last'.ret # stack[t][1].backend_name

\* bookkeeping of the step just taken by thread t: origin is the name that
\* was active when the first of the scopes now open (or just closed) was
\* entered, overlap tells whether scopes of two threads were open at once
\* since then, touched[t] whether t executed set_3d_backend inside its
\* scope, foreign_seen whether some thread saw a backend it did not ask for
Track(t) ==
    LET fresh == Quiescent' /\ last'.op \notin ExitOps IN
    scopes' =
        [origin |-> IF fresh THEN MNE_3D_BACKEND'
                    ELSE IF Quiescent THEN MNE_3D_BACKEND
                    ELSE scopes.origin,
         overlap |-> IF fresh THEN FALSE
                     ELSE (~Quiescent /\ scopes.overlap) \/ Overlapping',
         touched |-> [u \in AllThreads |->
                         IF stack'[u] = <<>> THEN FALSE
                         ELSE IF u # t THEN scopes.touched[u]
                         ELSE IF stack[t] = <<>> THEN FALSE
                         ELSE scopes.touched[t] \/ last'.op \in SetOps],
         foreign_seen |-> IF fresh THEN FALSE
                          ELSE (~Quiescent /\ scopes.foreign_seen)
                               \/ SeesForeignBackend(t)]

\* the single-threaded program
Next == \E t \in MainThreads : Step(t) /\ Track(t)

Spec == Init /\ [][Next]_vars

\* one call by thread t of the two-thread program: the threads switch
\* backends, directly and in use_3d_backend scopes, and read the active one
StepMT(t) ==
    \/ SetBackend(t)
    \/ GetBackend(t)
    \/ (Len(stack[t]) < MaxOverlapDepth /\ UseEnter(t))
    \/ UseExit(t)

\* the program with two threads, their calls interleaved in any order
NextMT == \E t \in AllThreads : StepMT(t) /\ Track(t)

SpecMT == Init /\ [][NextMT]_vars

---------------------------------------------------------------------------
(* Properties *)

\* some thread is inside a _use_test_3d_backend scope
InTestScope ==
    \E t \in AllThreads : \E i \in 1..Len(stack[t]) :
        stack[t][i].fn = "_use_test_3d_backend"

\* the most recent execution of set_3d_backend returned normally
LastSetReturned == last_set.arg # None /\ last_set.exc = NoExc

\* C1: once set_3d_backend(n) has returned normally, get_3d_backend() returns
\* n, and goes on returning n until set_3d_backend is executed again.
C1_SetThenGet ==
    /\ LastSetReturned => get_3d_backend(G) = last_set.arg
    /\ (last.op = "set_3d_backend" /\ last.exc = NoExc) =>
           get_3d_backend(G) = last.arg
    /\ (last.op = "get_3d_backend" /\ LastSetReturned) =>
           last.ret = last_set.arg

\* a get_3d_backend() that follows a successful switch away from the
\* configured default
C1_Witness ==
    /\ last.op = "get_3d_backend"
    /\ LastSetReturned
    /\ last_set.arg # config
    /\ last.ret = last_set.arg

\* C2: set_3d_backend of a name outside VALID_3D_BACKENDS raises the
\* validation error before any import is tried and leaves the active name,
\* the bound implementation and the test flag as they were.
C2_InvalidNameRejected ==
    (last.op = "set_3d_backend" /\ last.arg \notin VALID_3D_BACKENDS) =>
        /\ last.exc = Exc("ValueError", "_check_option")
        /\ last.imports = 0
        /\ G = last.pre

\* set_3d_backend of an invalid name was called inside a test scope
C2_Witness ==
    /\ last.op = "set_3d_backend"
    /\ last.arg \in InvalidNames
    /\ last.exc.type = "ValueError"
    /\ last.pre.MNE_3D_BACKEND_TEST_DATA = PyTrue
    /\ last.pre.MNE_3D_BACKEND # config

\* C3: a scope that was entered captured the name active before it, and when
\* the scope has exited, by return or by exception of its body, and whatever
\* the body set meanwhile, get_3d_backend() is that name again.
C3_ScopeRestores ==
    /\ (last.op \in EnterOps /\ last.entered) =>
           /\ last.old_backend = last.pre.MNE_3D_BACKEND
           /\ stack[last.thread][Len(stack[last.thread])].old_backend
                  = last.pre.MNE_3D_BACKEND
    /\ last.op \in ExitOps => get_3d_backend(G) = last.old_backend

\* a use_3d_backend scope whose body called set_3d_backend itself and then
\* raised has exited
C3_Witness ==
    /\ last.op = "use_3d_backend.exit"
    /\ last.body_exc # NoExc
    /\ last.pre.MNE_3D_BACKEND # last.arg
    /\ last.pre.MNE_3D_BACKEND # last.old_backend
    /\ MNE_3D_BACKEND = last.old_backend

\* C4: a set_3d_backend that raises leaves the active name and the bound
\* implementation exactly as they were before the call.
C4_AllOrNothing ==
    (last.op = "set_3d_backend" /\ last.exc # NoExc) => G = last.pre

\* C5: the bound implementation (_mod and the names imported from it) is the
\* implementation of the name get_3d_backend() returns.
C5_BindingMatchesName ==
    /\ _mod = _name_map[get_3d_backend(G)]
    /\ \A k \in _fromlist : bound[k] = _name_map[get_3d_backend(G)]

\* C6: when the set_3d_backend on entry to use_3d_backend fails, the body is
\* not executed, the failure reaches the caller, and the active name and the
\* bound implementation are those from before the entry.
C6_FailedEntryChangesNothing ==
    (last.op = "use_3d_backend.enter" /\ last_set.exc # NoExc) =>
        /\ ~last.entered
        /\ Len(stack[last.thread]) = last.depth
        /\ last.exc = last_set.exc
        /\ G = last.pre

\* C7: when the body of a scope raises X and the restoring set_3d_backend
\* succeeds, the caller gets X itself, and the previous backend is active
\* again by then.
C7_BodyErrorPropagates ==
    (last.op \in ExitOps /\ last.body_exc # NoExc /\ last.restore_exc = NoExc) =>
        /\ last.exc = last.body_exc
        /\ get_3d_backend(G) = last.old_backend

\* the body of a use_3d_backend scope raised, the restoring call succeeded
\* and switched the backend back
C7_Witness ==
    /\ last.op = "use_3d_backend.exit"
    /\ last.body_exc # NoExc
    /\ last.restore_exc = NoExc
    /\ last.pre.MNE_3D_BACKEND # last.old_backend
    /\ _mod = _name_map[last.old_backend]

\* C8: when the restoring set_3d_backend on exit from a scope fails, the
\* caller gets that failure, whether the body returned or raised.
C8_RestoreFailureSurfaces ==
    (last.op \in ExitOps /\ last_set.exc # NoExc) =>
        /\ last.exc = last_set.exc
        /\ last.exc.raised_by \in {"import", "_check_option"}

\* the body raised and the restoring call failed as well
C8_Witness ==
    /\ last.op = "use_3d_backend.exit"
    /\ last.body_exc = Exc("ImportError", "body")
    /\ last_set.exc = Exc("ImportError", "import")
    /\ last.exc = last_set.exc

\* C9: the test flag is True inside a _use_test_3d_backend scope and None in
\* every state outside one.
C9_TestFlagScoped ==
    /\ InTestScope => MNE_3D_BACKEND_TEST_DATA = PyTrue
    /\ ~InTestScope => MNE_3D_BACKEND_TEST_DATA = None

\* C10: a facade call reaches the implementation bound when it is made: the
\* one of the backend most recently set when that set returned normally, the
\* one bound at import when no set was executed yet.
C10_FacadeDelegatesToCurrent ==
    last.op \in FacadeOps =>
        /\ last.hit = _mod
        /\ LastSetReturned => last.hit = _name_map[last_set.arg]
        /\ last_set.arg = None => last.hit = _name_map[config]

\* a figure was created after a successful switch away from the backend
\* bound at import
C10_Witness ==
    /\ last.op = "create_3d_figure"
    /\ LastSetReturned
    /\ last.hit # _name_map[config]
    /\ last.ret = _name_map[last_set.arg]

\* C11: in every state, the one right after module initialization included,
\* the active backend name is a member of VALID_3D_BACKENDS.
C11_ActiveNameValid ==
    /\ MNE_3D_BACKEND \in VALID_3D_BACKENDS
    /\ \A t \in AllThreads : \A i \in 1..Len(stack[t]) :
           stack[t][i].old_backend \in VALID_3D_BACKENDS

\* a scope entry with an unsupported name was refused inside a scope that is
\* still open
C11_Witness ==
    /\ last.op = "use_3d_backend.enter"
    /\ last.arg \in InvalidNames
    /\ last.exc.type = "ValueError"
    /\ stack[last.thread] # <<>>
    /\ MNE_3D_BACKEND \in VALID_3D_BACKENDS

\* C12: the resolver runs once, when the module is first imported; no call
\* that reloads the module runs it again, and the reload keeps the name that
\* set_3d_backend has just assigned instead of the configured default.
C12_ResolverRunsOnce ==
    /\ last.op = "import" => last.resolutions = 1
    /\ last.op # "import" => last.resolutions = 0
    /\ (last.op \in SetOps /\ last.imports > 0) =>
           MNE_3D_BACKEND = last_set.arg

\* a reload was executed for a name other than the configured default
C12_Witness ==
    /\ last.op = "set_3d_backend"
    /\ last.imports = 1
    /\ last.resolutions = 0
    /\ last.arg # config
    /\ MNE_3D_BACKEND = last.arg

\* C14: get_3d_backend, create_3d_figure, set_3d_view and set_3d_title
\* leave the active name, the bound implementation and the test flag as they
\* were, whether they return or raise; a step that changes the active name
\* is an execution of set_3d_backend and the new name is its argument.
C14_ReadsLeaveState ==
    [][ /\ last'.op \in FacadeOps \cup {"get_3d_backend"} =>
               /\ G' = G
               /\ sys_modules' = sys_modules
               /\ stack' = stack
        /\ MNE_3D_BACKEND' # MNE_3D_BACKEND =>
               /\ last'.op \in SetOps
               /\ MNE_3D_BACKEND' = last_set'.arg ]_vars

\* set_3d_view raised on a figure of the other implementation, inside a
\* test scope, and the state is the one before the call
C14_Witness ==
    /\ last.op = "set_3d_view"
    /\ last.exc.type = "DelegationError"
    /\ last.pre.MNE_3D_BACKEND_TEST_DATA = PyTrue
    /\ last.pre.MNE_3D_BACKEND # config
    /\ G = last.pre

\* C15: no execution of set_3d_backend, directly or on entry to or exit from
\* a scope, invokes any member of a binding, _close_all and _check_figure
\* included; the facade calls invoke only the renderer, view and title
\* members, and create_3d_figure leaves no record of the scene it returns.
C15_NoAutomaticCleanup ==
    /\ last.op \in SetOps => last.called = {}
    /\ last.called \cap {"_close_all", "_check_figure"} = {}
    /\ last.op = "create_3d_figure" =>
           /\ last.called = {"_Renderer", "scene"}
           /\ G = last.pre

\* a successful set_3d_backend replaced the bound implementation and
\* invoked no member of the outgoing or of the incoming one
C15_Witness ==
    /\ last.op = "set_3d_backend"
    /\ last.exc = NoExc
    /\ last.pre._mod # _mod
    /\ last.pre._mod \in sys_modules
    /\ last.called = {}

\* C16: nested scopes of one thread restore in LIFO order: inside a scope
\* just entered the requested backend is active; when an inner scope exits,
\* by return or by exception, the backend active when it was entered is
\* active again, which is the outer scope's backend when the inner scope was
\* entered under it; when the outer scope exits the original is active.
C16_NestedLifo ==
    LET s == stack[last.thread] IN
    /\ (last.op \in EnterOps /\ last.entered) =>
           /\ get_3d_backend(G) = last.arg
           /\ s[Len(s)].backend_name = last.arg
           /\ s[Len(s)].old_backend = last.pre.MNE_3D_BACKEND
           /\ Len(s) = last.depth + 1
    /\ last.op \in ExitOps =>
           /\ Len(s) = last.depth - 1
           /\ get_3d_backend(G) = last.old_backend
    /\ \A i \in 1..Len(s) : s[i].old_backend \in VALID_3D_BACKENDS

\* the inner body raised; the inner scope was entered for b under an outer
\* scope for a # b, itself entered from original # a; a is active again
C16_Witness ==
    /\ last.op = "use_3d_backend.exit"
    /\ last.depth = 2
    /\ last.body_exc # NoExc
    /\ last.pre.MNE_3D_BACKEND = last.arg
    /\ last.arg # last.old_backend
    /\ Len(stack[last.thread]) = 1
    /\ stack[last.thread][1].backend_name = last.old_backend
    /\ stack[last.thread][1].old_backend # last.old_backend
    /\ MNE_3D_BACKEND = last.old_backend

\* C17: an execution of set_3d_backend that returns normally changes the
\* active name and the bound implementation and nothing else: the test flag
\* has the value it had before the call.
C17_SwitchKeepsTestFlag ==
    (last.op \in SetOps \ {"_use_test_3d_backend.enter"} /\ LastSetReturned) =>
        /\ MNE_3D_BACKEND_TEST_DATA = last.pre.MNE_3D_BACKEND_TEST_DATA
        /\ G = Globals(last_set.arg, last.pre.MNE_3D_BACKEND_TEST_DATA,
                       _name_map[last_set.arg],
                       [k \in _fromlist |-> _name_map[last_set.arg]])

\* a successful switch to the other backend was made with the test flag set
C17_Witness ==
    /\ last.op = "set_3d_backend"
    /\ last.exc = NoExc
    /\ last.pre.MNE_3D_BACKEND_TEST_DATA = PyTrue
    /\ last.pre.MNE_3D_BACKEND # last.arg
    /\ MNE_3D_BACKEND_TEST_DATA = PyTrue

\* C18: _use_test_3d_backend sets the test flag only when the switch on entry
\* succeeded; when the switch fails the body is not executed and the flag has
\* the value it had before the call.
C18_FlagSetAfterSwitch ==
    last.op = "_use_test_3d_backend.enter" =>
        /\ last.entered <=> last_set.exc = NoExc
        /\ last.entered =>
               /\ MNE_3D_BACKEND_TEST_DATA = PyTrue
               /\ Len(stack[last.thread]) = last.depth + 1
        /\ ~last.entered =>
               /\ last.exc = last_set.exc
               /\ Len(stack[last.thread]) = last.depth
               /\ MNE_3D_BACKEND_TEST_DATA = last.pre.MNE_3D_BACKEND_TEST_DATA

\* the switch on entry failed at the import while the flag was None
C18_Witness ==
    /\ last.op = "_use_test_3d_backend.enter"
    /\ last.exc = Exc("ImportError", "import")
    /\ ~last.entered
    /\ last.pre.MNE_3D_BACKEND_TEST_DATA = None
    /\ MNE_3D_BACKEND_TEST_DATA = None

\* C13: the active name is one unsynchronized slot.  When the scopes of two
\* threads never overlapped, the name active before the first scope was
\* entered is active again once every scope has exited.  (When they overlap
\* the name may be lost: C13_Witness.)
C13_SerializedScopesRestore ==
    (Quiescent /\ last.op \in ExitOps /\ ~scopes.overlap) =>
        MNE_3D_BACKEND = scopes.origin

\* the scopes of two threads overlapped; inside its scope one thread read a
\* backend it had not asked for; after both scopes have exited the active
\* name is not the one from before either was entered
C13_Witness ==
    /\ Quiescent
    /\ last.op \in ExitOps
    /\ scopes.overlap
    /\ scopes.foreign_seen
    /\ MNE_3D_BACKEND # scopes.origin

=============================================================================
